---- MODULE Spec2Model ----
(***************************************************************************)
(* Scoring core of the KGQA evaluation scripts.                            *)
(*                                                                         *)
(*   run_metrics_to_csv.py          calculate_counts: query-level and      *)
(*                                  item-level confusion counts obtained   *)
(*                                  by executing candidate and gold SPARQL *)
(*   run_metrics_to_csv_DeepSeek.py calculate_item_metrics: item-level     *)
(*                                  counts from pre-supplied answers       *)
(*                                                                         *)
(* One run executes one of the scripts; `script` says which.  One action   *)
(* is one iteration of the script's loop over the dataset.  The dataset is *)
(* drawn case by case (the loop ends where the dataset ends), and the      *)
(* outcome of each safe_query call is drawn by the action that makes it.   *)
(***************************************************************************)
EXTENDS Integers, FiniteSets, Sequences, TLC

\* ------------------------------------------------------------------ bounds
MaxCases == 2        \* longest dataset of calculate_counts
MaxRow == 2          \* result rows are 1..MaxRow
MaxItemCases == 2    \* longest dataset of calculate_item_metrics
MaxCount == 2        \* largest count handed to compute_metrics
MaxPrompts == 2      \* most prompts entered in the chat front end
MaxCalls == 3        \* most calls of safe_query in a row

VARIABLES
    script,             \* which script runs
    \* calculate_counts
    pc,                 \* "loop" | "returned" | "raised"
    idx,                \* enumerate(results, start=1)
    data_point,         \* the case of the current iteration
    overall_query,
    overall_item,
    type_counts,
    generated_results,  \* local, unbound until first assigned
    sample_results,     \* local, unbound until first assigned
    caught,             \* what the try block of the current iteration caught
    cases,              \* history: how many cases so far had both queries, and
                        \* how many of them had equal result sets
    printed,            \* the lines calculate_counts has written to stdout
    \* calculate_item_metrics
    ds_pc,
    ds_idx,
    ds_data_point,
    overall_counts,
    ds_type_counts,
    \* compute_metrics, of either script
    metrics_arg,        \* the counts it is called with
    computed,           \* which of the two functions have returned
    metrics,            \* what compute_metrics of run_metrics_to_csv.py returned
    ds_metrics,         \* what compute_metrics of the DeepSeek script returned
    \* the accumulation statements, applied to two cases in both orders
    fold_cases,         \* the two cases <<a, b>>
    fold_pc,            \* how many of the two have been accumulated
    fold_ab,            \* a bucket that receives a, then b
    fold_ba,            \* a bucket that receives b, then a
    \* main of run_metrics_to_csv.py
    results,            \* the dataset, each case with what its executions do
    main_pc,            \* "calculate_counts" | "analysis" | "write" | "done"
    type_order,         \* the keys of type_counts in insertion order
    overall_query_metrics,
    overall_item_metrics,
    avg_item_counts_overall,
    per_type_analysis,
    report,             \* the rows written to the CSV file, header excluded
    \* calculate_counts called on a dataset and on its two shards
    split,              \* the first shard is results[:split], the second the rest
    call,               \* "whole" | "first" | "second" | "done"
    returned,           \* what each finished call returned
    \* time_limit around safe_query
    wrapper_pc,         \* "caller" | "signal" | "alarm" | "func" | "finally" | "exit"
    calls,              \* how many calls of the wrapper have started
    alarm,              \* the call that armed the pending alarm, 0 when none
    sigalrm,            \* the installed SIGALRM handler: "default" | "handler"
    outcome,            \* how the running call ends, "none" while undecided
    outcomes,           \* how each finished call ended, as its caller saw it
    timeouts,           \* history: where each TimeoutError was raised
    \* the chat front end, streamlit/app.py
    session_state,      \* st.session_state: finetuned_messages, base_messages
    prompt,             \* the number of the prompt being handled, 0 before any
    app_pc,             \* the script thread
    finetuned_pc,       \* the thread of get_finetuned_model_response
    base_pc             \* the thread of get_base_model_response

countsVars == <<pc, idx, data_point, overall_query, overall_item,
                type_counts, generated_results, sample_results, caught, cases,
                printed>>
itemVars == <<ds_pc, ds_idx, ds_data_point, overall_counts,
              ds_type_counts>>
metricsVars == <<metrics_arg, computed, metrics, ds_metrics>>
foldVars == <<fold_cases, fold_pc, fold_ab, fold_ba>>
mainVars == <<results, main_pc, type_order, overall_query_metrics,
              overall_item_metrics, avg_item_counts_overall, per_type_analysis,
              report>>
shardVars == <<split, call, returned>>
limitVars == <<wrapper_pc, calls, alarm, sigalrm, outcome, outcomes, timeouts>>
chatVars == <<session_state, prompt, app_pc, finetuned_pc, base_pc>>
vars == <<script, countsVars, itemVars, metricsVars, foldVars, mainVars,
          shardVars, limitVars, chatVars>>

\* --------------------------------------------------------- python values
\* dict.get of a missing key
None == "None"

\* truth value of a query field: None and "" are falsy
Truthy(v) == v # None /\ v # ""

\* a or b
PyOr(a, b) == IF Truthy(a) THEN a ELSE b

\* a local variable of the function: unbound, or bound to a set
Unbound == [bound |-> FALSE, val |-> {}]
Bound(s) == [bound |-> TRUE, val |-> s]

\* ------------------------------------------------ run_metrics_to_csv.py
ZeroCounts == [TP |-> 0, FN |-> 0, FP |-> 0, TN |-> 0]

\* a fresh entry of type_counts
ZeroBucket == [query_level |-> ZeroCounts, item_level |-> ZeroCounts]

\* mutant: counts[field] = n
AddAssign(counts, field, n) == [counts EXCEPT ![field] = n]

\* counts[field] += n
Add(counts, field, n) == [counts EXCEPT ![field] = @ + n]

Rows == 1..MaxRow

\* mutant: a query that times out is taken to have returned no row
ReturnsOrTimesOut(o) == o.type \in {"rows", "TimeoutError"}

\* what one call of graph.safe_query does: it returns rows or raises
Returns(o) == o.type = "rows"
safe_query == [type : {"rows"}, rows : SUBSET Rows]
                \cup [type : {"TimeoutError", "Exception"}, rows : {{}}]

\* a call of safe_query that the iteration does not reach
NotCalled == [type |-> "none", rows |-> {}]

NoCatch == [type |-> "none", call |-> "none"]

\* the value data_point.get("question_type", "unknown") of a case
QuestionTypes == {"actor_to_movie"}

\* the cases of a dataset: each query field is missing, empty or a query;
\* the candidate query is under one of the keys sparql_response and
\* generated_sparql
QueryFields == {None, "", "SELECT"}
DataPoints == {dp \in [question_type : QuestionTypes \cup {None},
                       sparql_response : QueryFields,
                       generated_sparql : {None, "SELECT"},
                       sparql : QueryFields] :
                   dp.generated_sparql # None => dp.sparql_response = None}

\* mutant: every case filed under "unknown"
QTypeUnknown(dp) == "unknown"

\* data_point.get("question_type", "unknown")
QType(dp) == IF dp.question_type = None THEN "unknown" ELSE dp.question_type

\* data_point.get("sparql_response") or data_point.get("generated_sparql")
SparqlResponse(dp) == PyOr(dp.sparql_response, dp.generated_sparql)

\* data_point.get("sparql")
SampleQuery(dp) == dp.sparql

\* mutant: one query is enough to go on
EitherQuery(dp) == Truthy(SparqlResponse(dp)) \/ Truthy(SampleQuery(dp))

\* if sparql_response and sample_query:
BothQueries(dp) == Truthy(SparqlResponse(dp)) /\ Truthy(SampleQuery(dp))

\* mutant: the bucket of the case is zeroed whether or not it exists
WithBucketFresh(tc, qtype) ==
    [k \in DOMAIN tc \cup {qtype} |-> IF k = qtype THEN ZeroBucket ELSE tc[k]]

\* if qtype not in type_counts: type_counts[qtype] = {...}
WithBucket(tc, qtype) ==
    IF qtype \in DOMAIN tc THEN tc
    ELSE [k \in DOMAIN tc \cup {qtype} |-> IF k = qtype THEN ZeroBucket ELSE tc[k]]

\* mutant: containment taken for equality
QueryMatchSubset(generated, sample) == generated \subseteq sample

\* generated_results == sample_results
QueryMatch(generated, sample) == generated = sample

\* mutant: the two branches of the comparison swapped
MatchFieldSwapped(generated, sample) ==
    IF QueryMatch(generated, sample) THEN "FN" ELSE "TP"

\* the field of the query-level counts that the comparison increments
MatchField(generated, sample) == IF QueryMatch(generated, sample) THEN "TP" ELSE "FN"

\* mutant: a failure counted as a false positive
ExceptFieldFP == "FP"

\* the field of the query-level counts that the except clause increments
ExceptField == "FN"

\* len(generated_results & sample_results)
tp_items(generated, sample) == Cardinality(generated \cap sample)

\* mutant: the operands of the difference swapped
fn_items_swapped(generated, sample) == Cardinality(generated \ sample)

\* len(sample_results - generated_results)
fn_items(generated, sample) == Cardinality(sample \ generated)

\* len(generated_results - sample_results)
fp_items(generated, sample) == Cardinality(generated \ sample)

\* the three += of the item-level counts
AddItems(counts, generated, sample) ==
    Add(Add(Add(counts, "TP", tp_items(generated, sample)),
            "FN", fn_items(generated, sample)),
        "FP", fp_items(generated, sample))

\* history of a pass: the case has a candidate query and a gold query, each
\* a non-empty string
HasBothQueries(dp) ==
    /\ dp.sparql \notin {None, ""}
    /\ \/ dp.sparql_response \notin {None, ""}
       \/ dp.generated_sparql \notin {None, ""}

NoCases == [both |-> 0, matching |-> 0]

NoCase == [question_type |-> None, sparql_response |-> None,
           generated_sparql |-> None, sparql |-> None]

\* the state of calculate_counts before its loop
CountsInit ==
    /\ pc = "loop"
    /\ idx = 0
    /\ data_point = NoCase
    /\ overall_query = ZeroCounts
    /\ overall_item = ZeroCounts
    /\ type_counts = << >>
    /\ generated_results = Unbound
    /\ sample_results = Unbound
    /\ caught = NoCatch
    /\ cases = NoCases
    /\ printed = << >>

\* print(f"Processing data point: {idx} of {total_points}"), the only line
\* the function prints (the total is left out: the dataset is read case by case)
ProgressLine(i) == [text |-> "Processing data point", idx |-> i]

\* one iteration of the loop of calculate_counts over the case dp, where the
\* candidate execution does gen and the gold execution (if reached) does smp
CountsBody(dp, gen, smp) ==
    LET qtype == QType(dp)
        tc0 == WithBucket(type_counts, qtype)
        genOk == Returns(gen)
        smpOk == genOk /\ Returns(smp)
        gr == IF genOk THEN Bound(gen.rows) ELSE generated_results
        sr == IF smpOk THEN Bound(smp.rows) ELSE sample_results
        field == IF smpOk THEN MatchField(gen.rows, smp.rows) ELSE ExceptField
        tc1 == [tc0 EXCEPT ![qtype].query_level = Add(@, field, 1)]
    IN  /\ idx' = idx + 1
        /\ data_point' = dp
        /\ printed' = Append(printed, ProgressLine(idx + 1))
        /\ cases' = [both |-> cases.both + (IF HasBothQueries(dp) THEN 1 ELSE 0),
                     matching |-> cases.matching +
                         (IF HasBothQueries(dp) /\ smpOk /\ gen.rows = smp.rows
                          THEN 1 ELSE 0)]
        /\ IF BothQueries(dp)
           THEN /\ generated_results' = gr
                /\ sample_results' = sr
                /\ caught' = IF ~genOk THEN [type |-> gen.type, call |-> "candidate"]
                             ELSE IF ~smpOk THEN [type |-> smp.type, call |-> "gold"]
                             ELSE NoCatch
                /\ overall_query' = Add(overall_query, field, 1)
                /\ IF gr.bound /\ sr.bound
                   THEN /\ overall_item' = AddItems(overall_item, gr.val, sr.val)
                        /\ type_counts' = [tc1 EXCEPT ![qtype].item_level =
                                              AddItems(@, gr.val, sr.val)]
                        /\ pc' = pc
                   ELSE \* line 127 reads a local that was never assigned
                        /\ overall_item' = overall_item
                        /\ type_counts' = tc1
                        /\ pc' = "raised"
           ELSE /\ type_counts' = tc0
                /\ caught' = NoCatch
                /\ UNCHANGED <<generated_results, sample_results, overall_query,
                               overall_item, pc>>

CountsCase ==
    /\ script = "run_metrics_to_csv"
    /\ pc = "loop"
    /\ idx < MaxCases
    /\ \E dp \in DataPoints :
           IF BothQueries(dp)
           THEN \E gen \in safe_query :
                    IF Returns(gen)
                    THEN \E smp \in safe_query : CountsBody(dp, gen, smp)
                    ELSE CountsBody(dp, gen, NotCalled)
           ELSE CountsBody(dp, NotCalled, NotCalled)
    /\ UNCHANGED <<script, limitVars, chatVars, itemVars, metricsVars, foldVars, mainVars, shardVars>>

\* the dataset ends: return overall_query, overall_item, type_counts
CountsReturn ==
    /\ script = "run_metrics_to_csv"
    /\ pc = "loop"
    /\ pc' = "returned"
    /\ UNCHANGED <<script, limitVars, chatVars, idx, data_point, overall_query, overall_item,
                   type_counts, generated_results, sample_results, caught, cases,
                   printed, itemVars, metricsVars, foldVars, mainVars, shardVars>>

\* ---------------------------------------- run_metrics_to_csv_DeepSeek.py
ZeroItemCounts == [TP |-> 0, FN |-> 0, FP |-> 0]

\* the strings an answer list holds
AnswerItems == {"YES", "a"}

\* answer lists, in the order and with the repetitions the dataset gives
AnswerLists == {<< >>, <<"YES">>, <<"a">>, <<"a", "YES">>, <<"a", "a">>}

\* the value under an answer key: the key is missing, or it holds a
\* boolean, or it holds a list of strings
Missing == [kind |-> "missing", b |-> FALSE, l |-> << >>]
AnswerValues == {Missing} \cup [kind : {"bool"}, b : BOOLEAN, l : {<< >>}]
                    \cup [kind : {"list"}, b : {FALSE}, l : AnswerLists]

ItemDataPoints == [question_type : QuestionTypes \cup {None},
                   answer : AnswerValues,
                   deepseek_answer : AnswerValues]

NoItemCase == [question_type |-> None, answer |-> Missing, deepseek_answer |-> Missing]

\* set(list)
PySet(l) == {l[i] : i \in DOMAIN l}

\* data_point.get(key, []): the default stands in for a missing key
GetOrEmptyList(v) == IF v.kind = "missing" THEN [kind |-> "list", b |-> FALSE, l |-> << >>]
                     ELSE v

\* isinstance(correct_answers, list), after data_point.get("answer", [])
AnswerIsList(dp) == GetOrEmptyList(dp.answer).kind = "list"

\* correct_answers after the isinstance test: set() for what is no list
CorrectSet(dp) == IF AnswerIsList(dp) THEN PySet(GetOrEmptyList(dp.answer).l) ELSE {}

\* isinstance(data_point.get("deepseek-answer"), bool)
IsYesNo(dp) == dp.deepseek_answer.kind = "bool"

\* {"yes"} if ... else {"no"}
YesNoSet(b) == IF b THEN {"yes"} ELSE {"no"}

\* mutant: the gold side of a yes/no case is left as the list gave it
CorrectAnswersRaw(dp) == CorrectSet(dp)

\* correct_answers when the sets are compared
CorrectAnswers(dp) ==
    IF IsYesNo(dp) THEN YesNoSet("YES" \in CorrectSet(dp)) ELSE CorrectSet(dp)

\* deepseek_answer when the sets are compared
DeepseekAnswer(dp) ==
    IF IsYesNo(dp) THEN YesNoSet(dp.deepseek_answer.b)
    ELSE PySet(GetOrEmptyList(dp.deepseek_answer).l)

\* mutant: the bucket of the case is zeroed whether or not it exists
WithItemBucketFresh(tc, qtype) ==
    [k \in DOMAIN tc \cup {qtype} |-> IF k = qtype THEN ZeroItemCounts ELSE tc[k]]

\* if qtype not in type_counts: type_counts[qtype] = {"TP": 0, "FN": 0, "FP": 0}
WithItemBucket(tc, qtype) ==
    IF qtype \in DOMAIN tc THEN tc
    ELSE [k \in DOMAIN tc \cup {qtype} |-> IF k = qtype THEN ZeroItemCounts ELSE tc[k]]

\* len(correct_answers & deepseek_answer)
ds_tp_items(correct, deepseek) == Cardinality(correct \cap deepseek)

\* mutant: the matched answers are not taken out
ds_fn_items_all(correct, deepseek) == Cardinality(correct)

\* len(correct_answers - deepseek_answer)
ds_fn_items(correct, deepseek) == Cardinality(correct \ deepseek)

\* len(deepseek_answer - correct_answers)
ds_fp_items(correct, deepseek) == Cardinality(deepseek \ correct)

\* the three += of a counts dict
AddItemCounts(counts, correct, deepseek) ==
    Add(Add(Add(counts, "TP", ds_tp_items(correct, deepseek)),
            "FN", ds_fn_items(correct, deepseek)),
        "FP", ds_fp_items(correct, deepseek))

\* the state of calculate_item_metrics before its loop
ItemsInit ==
    /\ ds_pc = "loop"
    /\ ds_idx = 0
    /\ ds_data_point = NoItemCase
    /\ overall_counts = ZeroItemCounts
    /\ ds_type_counts = << >>

\* one iteration of the loop of calculate_item_metrics over the case dp
ItemsBody(dp) ==
    LET qtype == QType(dp)
        correct_answers == CorrectAnswers(dp)
        deepseek_answer == DeepseekAnswer(dp)
    IN  /\ ds_idx' = ds_idx + 1
        /\ ds_data_point' = dp
        /\ overall_counts' = AddItemCounts(overall_counts, correct_answers, deepseek_answer)
        /\ ds_type_counts' = [WithItemBucket(ds_type_counts, qtype) EXCEPT ![qtype] =
                                 AddItemCounts(@, correct_answers, deepseek_answer)]

ItemsCase ==
    /\ script = "run_metrics_to_csv_DeepSeek"
    /\ ds_pc = "loop"
    /\ ds_idx < MaxItemCases
    /\ \E dp \in ItemDataPoints : ItemsBody(dp)
    /\ UNCHANGED <<script, limitVars, chatVars, ds_pc, countsVars, metricsVars, foldVars, mainVars, shardVars>>

\* the dataset ends: return overall_counts, type_counts
ItemsReturn ==
    /\ script = "run_metrics_to_csv_DeepSeek"
    /\ ds_pc = "loop"
    /\ ds_pc' = "returned"
    /\ UNCHANGED <<script, limitVars, chatVars, ds_idx, ds_data_point, overall_counts, ds_type_counts,
                   countsVars, metricsVars, foldVars, mainVars, shardVars>>

\* -------------------------------------------------------- compute_metrics
\* The value of a metric: an exact fraction num/den with den > 0 (the
\* rounding of Python's floats is left out).  A division by zero raises
\* ZeroDivisionError, which is kept as the value with den = 0.
Frac(n, d) == [num |-> n, den |-> d]
Zero == Frac(0, 1)
ZeroDivisionError == Frac(0, 0)
Raised(x) == x.den = 0

\* a / b
Div(a, b) == IF b = 0 THEN ZeroDivisionError ELSE Frac(a, b)

\* x + y, x * y and x / y on metric values
FracAdd(x, y) == IF Raised(x) \/ Raised(y) THEN ZeroDivisionError
                 ELSE Frac(x.num * y.den + y.num * x.den, x.den * y.den)
FracMul(x, y) == IF Raised(x) \/ Raised(y) THEN ZeroDivisionError
                 ELSE Frac(x.num * y.num, x.den * y.den)
FracDiv(x, y) == IF Raised(x) \/ Raised(y) \/ y.num = 0 THEN ZeroDivisionError
                 ELSE Frac(x.num * y.den, x.den * y.num)

\* 1 - x
OneMinus(x) == IF Raised(x) THEN ZeroDivisionError ELSE Frac(x.den - x.num, x.den)

\* truth value of a number
NonZero(x) == Raised(x) \/ x.num # 0

\* support = counts["TP"] + counts["FN"] + counts["FP"] + counts["TN"]
Support(c) == c.TP + c.FN + c.FP + c.TN

\* accuracy = ((TP + TN) / support) if support else 0
Accuracy(c) == IF Support(c) # 0 THEN Div(c.TP + c.TN, Support(c)) ELSE Zero

\* mutant: error_rate = 1 - accuracy
ErrorRateUnguarded(c) == OneMinus(Accuracy(c))

\* error_rate = 1 - accuracy if support else 0
ErrorRate(c) == IF Support(c) # 0 THEN OneMinus(Accuracy(c)) ELSE Zero

\* precision = TP / (TP + FP) if (TP + FP) else 0
Precision(c) == IF c.TP + c.FP # 0 THEN Div(c.TP, c.TP + c.FP) ELSE Zero

\* mutant: recall taken over the retrieved items
RecallOverRetrieved(c) == IF c.TP + c.FN # 0 THEN Div(c.TP, c.TP + c.FP) ELSE Zero

\* recall = TP / (TP + FN) if (TP + FN) else 0
Recall(c) == IF c.TP + c.FN # 0 THEN Div(c.TP, c.TP + c.FN) ELSE Zero

\* f1_score = (2 * precision * recall / (precision + recall))
\*            if (precision + recall) else 0
F1Score(precision, recall) ==
    IF NonZero(FracAdd(precision, recall))
    THEN FracDiv(FracMul(FracMul(Frac(2, 1), precision), recall),
                 FracAdd(precision, recall))
    ELSE Zero

\* mutant: the guard of precision copied to the false-negative rate
FalseNegativeRateOtherGuard(c) ==
    IF c.TP + c.FP # 0 THEN Div(c.FN, c.TP + c.FN) ELSE Zero

\* fnr = FN / (TP + FN) if (TP + FN) else 0
FalseNegativeRate(c) == IF c.TP + c.FN # 0 THEN Div(c.FN, c.TP + c.FN) ELSE Zero

\* fpr = FP / (TP + FP) if (TP + FP) else 0
FalsePositiveRate(c) == IF c.TP + c.FP # 0 THEN Div(c.FP, c.TP + c.FP) ELSE Zero

\* compute_metrics of run_metrics_to_csv.py
compute_metrics(c) ==
    [support |-> Support(c),
     accuracy |-> Accuracy(c),
     error_rate |-> ErrorRate(c),
     precision |-> Precision(c),
     recall |-> Recall(c),
     f1_score |-> F1Score(Precision(c), Recall(c)),
     false_negative_rate |-> FalseNegativeRate(c),
     false_positive_rate |-> FalsePositiveRate(c)]

\* precision = tp / (tp + fp) if (tp + fp) else 0
ds_precision(c) == IF c.TP + c.FP # 0 THEN Div(c.TP, c.TP + c.FP) ELSE Zero

\* recall = tp / (tp + fn) if (tp + fn) else 0
ds_recall(c) == IF c.TP + c.FN # 0 THEN Div(c.TP, c.TP + c.FN) ELSE Zero

\* compute_metrics of run_metrics_to_csv_DeepSeek.py
ds_compute_metrics(c) ==
    [precision |-> ds_precision(c),
     recall |-> ds_recall(c),
     f1_score |-> F1Score(ds_precision(c), ds_recall(c)),
     TP |-> c.TP, FN |-> c.FN, FP |-> c.FP]

\* the counts compute_metrics is called with
CountsArgs == [TP : 0..MaxCount, FN : 0..MaxCount, FP : 0..MaxCount, TN : 0..MaxCount]

\* before either function is called
MetricsIdle ==
    /\ computed = {}
    /\ metrics = compute_metrics(ZeroCounts)
    /\ ds_metrics = ds_compute_metrics(ZeroCounts)

ComputeMetrics ==
    /\ script = "compute_metrics"
    /\ "run_metrics_to_csv" \notin computed
    /\ metrics' = compute_metrics(metrics_arg)
    /\ computed' = computed \cup {"run_metrics_to_csv"}
    /\ UNCHANGED <<script, limitVars, chatVars, metrics_arg, ds_metrics, countsVars, itemVars, foldVars, mainVars, shardVars>>

DsComputeMetrics ==
    /\ script = "compute_metrics"
    /\ "run_metrics_to_csv_DeepSeek" \notin computed
    /\ ds_metrics' = ds_compute_metrics(metrics_arg)
    /\ computed' = computed \cup {"run_metrics_to_csv_DeepSeek"}
    /\ UNCHANGED <<script, limitVars, chatVars, metrics_arg, metrics, countsVars, itemVars, foldVars, mainVars, shardVars>>

\* ----------------------------------------------------------- accumulation
\* What one case hands to the accumulation statements of calculate_counts
\* (lines 116-136): whether the try block raised, and the two result sets the
\* item-level block reads.
CountsContributions ==
    [failed : BOOLEAN, generated : SUBSET Rows, sample : SUBSET Rows]

\* What one case hands to those of calculate_item_metrics (lines 51-62).
ItemContributions ==
    [correct : SUBSET AnswerItems, deepseek : SUBSET AnswerItems]

\* lines 116-136 on one bucket
FoldCounts(bucket, c) ==
    LET field == IF c.failed THEN ExceptField
                 ELSE MatchField(c.generated, c.sample)
    IN  [query_level |-> Add(bucket.query_level, field, 1),
         item_level |-> AddItems(bucket.item_level, c.generated, c.sample)]

\* lines 51-62 on one bucket
FoldItems(bucket, c) == AddItemCounts(bucket, c.correct, c.deepseek)

FoldIdle ==
    /\ fold_pc = 0
    /\ fold_ab = ZeroBucket
    /\ fold_ba = ZeroBucket

\* the next case of each order goes into its bucket
FoldCountsCase ==
    /\ script = "run_metrics_to_csv"
    /\ fold_pc < 2
    /\ fold_pc' = fold_pc + 1
    /\ fold_ab' = FoldCounts(fold_ab, fold_cases[fold_pc + 1])
    /\ fold_ba' = FoldCounts(fold_ba, fold_cases[2 - fold_pc])
    /\ UNCHANGED <<script, limitVars, chatVars, fold_cases, countsVars, itemVars, metricsVars, mainVars, shardVars>>

FoldItemsCase ==
    /\ script = "run_metrics_to_csv_DeepSeek"
    /\ fold_pc < 2
    /\ fold_pc' = fold_pc + 1
    /\ fold_ab' = FoldItems(fold_ab, fold_cases[fold_pc + 1])
    /\ fold_ba' = FoldItems(fold_ba, fold_cases[2 - fold_pc])
    /\ UNCHANGED <<script, limitVars, chatVars, fold_cases, countsVars, itemVars, metricsVars, mainVars, shardVars>>

\* ------------------------------------------------------------------- main
\* A case of the results file together with what its two executions do.
Case(question_type, sparql_response, generated_sparql, sparql, gen, smp) ==
    [dp |-> [question_type |-> question_type, sparql_response |-> sparql_response,
             generated_sparql |-> generated_sparql, sparql |-> sparql],
     gen |-> gen, smp |-> smp]

RowsOf(rows) == [type |-> "rows", rows |-> rows]
Raises(type) == [type |-> type, rows |-> {}]

\* the cases of the datasets main is run on: a match, a mismatch with an
\* extra row, a gold timeout, a candidate error, and a case with no gold query
Executions ==
    {Case("actor_to_movie", "SELECT", None, "SELECT", RowsOf({1}), RowsOf({1})),
     Case(None, None, "SELECT", "SELECT", RowsOf({1, 2}), RowsOf({1})),
     Case("actor_to_movie", "SELECT", None, "SELECT", RowsOf({1}),
          Raises("TimeoutError")),
     Case(None, "SELECT", None, "SELECT", Raises("Exception"), NotCalled),
     Case("actor_to_movie", "SELECT", None, None, NotCalled, NotCalled)}

\* results = json.load(f): any list of up to MaxCases cases
Datasets == UNION {[1..n -> Executions] : n \in 0..MaxCases}

\* the order of counts.items() and of compute_metrics(...).items()
CountKeys == <<"TP", "FN", "FP", "TN">>
MetricKeys == <<"support", "accuracy", "error_rate", "precision", "recall",
                "f1_score", "false_negative_rate", "false_positive_rate">>

\* mutant: only the matching queries are taken for valid
ValidQueriesMatched(query_counts) == query_counts.TP

\* valid_queries = TP + FN + FP + TN of the query-level counts
ValidQueries(query_counts) ==
    query_counts.TP + query_counts.FN + query_counts.FP + query_counts.TN

\* the average item-level counts per valid query, or zeros when there is none
AvgItemCounts(item_counts, valid_queries) ==
    IF valid_queries # 0
    THEN [f \in DOMAIN item_counts |-> Div(item_counts[f], valid_queries)]
    ELSE [f \in DOMAIN item_counts |-> Zero]

\* lines 246-271: the analysis of one question type
TypeAnalysis(counts) ==
    [query_level_counts |-> counts.query_level,
     query_level_metrics |-> compute_metrics(counts.query_level),
     item_level_counts |-> counts.item_level,
     item_level_metrics |-> compute_metrics(counts.item_level),
     average_item_counts_per_query |->
         AvgItemCounts(counts.item_level, ValidQueries(counts.query_level))]

\* a cell written as it is: an integer
Plain(n) == [format |-> "int", value |-> n]

\* f"{value:.4f}": the value rounded to four decimals (half to even), kept
\* as a number of ten-thousandths
Fmt4(x) ==
    LET n == x.num * 10000
        d == x.den
        q == n \div d
        r == n % d
    IN  [format |-> ".4f",
         value |-> IF 2 * r < d THEN q
                   ELSE IF 2 * r > d THEN q + 1
                   ELSE IF q % 2 = 0 THEN q ELSE q + 1]

\* writer.writerow([section, question_type, category, metric, value]) for
\* every item of a dict, in the order of its keys
CountRows(section, question_type, category, keys, dict) ==
    [i \in 1..Len(keys) |->
        <<section, question_type, category, keys[i], Plain(dict[keys[i]])>>]
Fmt4Rows(section, question_type, category, keys, dict) ==
    [i \in 1..Len(keys) |->
        <<section, question_type, category, keys[i],
          \* support is an integer, every other value a ratio
          Fmt4(IF keys[i] = "support" THEN Frac(dict.support, 1)
               ELSE dict[keys[i]])>>]

\* lines 284-338: the rows of one question type
TypeRows(qtype, analysis) ==
    LET section == "Per Question Type Analysis" IN
    CountRows(section, qtype, "Query-Level Counts", CountKeys,
              analysis.query_level_counts)
    \o Fmt4Rows(section, qtype, "Query-Level Metrics", MetricKeys,
                analysis.query_level_metrics)
    \o CountRows(section, qtype, "Item-Level Counts", CountKeys,
                 analysis.item_level_counts)
    \o Fmt4Rows(section, qtype, "Item-Level Metrics", MetricKeys,
                analysis.item_level_metrics)
    \o Fmt4Rows(section, qtype, "Average Item-Level Counts per Query", CountKeys,
                analysis.average_item_counts_per_query)

\* mutant: the question types are walked last to first
RECURSIVE PerTypeRowsReversed(_, _)
PerTypeRowsReversed(order, analyses) ==
    IF order = << >> THEN << >>
    ELSE PerTypeRowsReversed(Tail(order), analyses)
         \o TypeRows(Head(order), analyses[Head(order)])

\* line 283: for qtype, analysis in per_type_analysis.items()
RECURSIVE PerTypeRows(_, _)
PerTypeRows(order, analyses) ==
    IF order = << >> THEN << >>
    ELSE TypeRows(Head(order), analyses[Head(order)])
         \o PerTypeRows(Tail(order), analyses)

\* lines 340-395: the rows of the overall analysis
OverallRows ==
    LET section == "Overall Analysis" IN
    CountRows(section, "Overall Query-Level Counts", "Counts", CountKeys,
              overall_query)
    \o Fmt4Rows(section, "Overall Query-Level Metrics", "Metrics", MetricKeys,
                overall_query_metrics)
    \o CountRows(section, "Overall Item-Level Counts", "Counts", CountKeys,
                 overall_item)
    \o Fmt4Rows(section, "Overall Item-Level Metrics", "Metrics", MetricKeys,
                overall_item_metrics)
    \o Fmt4Rows(section, "Overall Average Item-Level Counts per Query", "Counts",
                CountKeys, avg_item_counts_overall)

\* before main has read the results file
MainIdle ==
    /\ main_pc = "calculate_counts"
    /\ type_order = << >>
    /\ overall_query_metrics = compute_metrics(ZeroCounts)
    /\ overall_item_metrics = compute_metrics(ZeroCounts)
    /\ avg_item_counts_overall = AvgItemCounts(ZeroCounts, 0)
    /\ per_type_analysis = << >>
    /\ report = << >>

analysisVars == <<overall_query_metrics, overall_item_metrics,
                  avg_item_counts_overall, per_type_analysis, report>>

\* line 220, one iteration of the loop of calculate_counts(results)
MainCase ==
    /\ script = "main"
    /\ main_pc = "calculate_counts"
    /\ pc = "loop"
    /\ idx < Len(results)
    /\ LET case == results[idx + 1]
           qtype == QType(case.dp)
       IN  /\ CountsBody(case.dp, case.gen, case.smp)
           /\ type_order' = IF qtype \in DOMAIN type_counts THEN type_order
                            ELSE Append(type_order, qtype)
    /\ UNCHANGED <<script, limitVars, chatVars, results, main_pc, analysisVars, itemVars, metricsVars,
                   foldVars, shardVars>>

\* line 220, calculate_counts returns its three dicts
MainReturn ==
    /\ script = "main"
    /\ main_pc = "calculate_counts"
    /\ pc = "loop"
    /\ idx = Len(results)
    /\ pc' = "returned"
    /\ main_pc' = "analysis"
    /\ UNCHANGED <<script, limitVars, chatVars, idx, data_point, overall_query, overall_item,
                   type_counts, generated_results, sample_results, caught, cases,
                   printed, results, type_order, analysisVars, itemVars,
                   metricsVars, foldVars, shardVars>>

\* lines 222-271: the metrics and averages, overall and per question type
MainAnalysis ==
    /\ script = "main"
    /\ main_pc = "analysis"
    /\ overall_query_metrics' = compute_metrics(overall_query)
    /\ overall_item_metrics' = compute_metrics(overall_item)
    /\ avg_item_counts_overall' =
           AvgItemCounts(overall_item, ValidQueries(overall_query))
    /\ per_type_analysis' =
           [qtype \in DOMAIN type_counts |-> TypeAnalysis(type_counts[qtype])]
    /\ main_pc' = "write"
    /\ UNCHANGED <<script, limitVars, chatVars, results, type_order, report, countsVars, itemVars,
                   metricsVars, foldVars, shardVars>>

\* lines 273-397: the CSV file
MainWrite ==
    /\ script = "main"
    /\ main_pc = "write"
    /\ report' = PerTypeRows(type_order, per_type_analysis) \o OverallRows
    /\ main_pc' = "done"
    /\ UNCHANGED <<script, limitVars, chatVars, results, type_order, overall_query_metrics,
                   overall_item_metrics, avg_item_counts_overall,
                   per_type_analysis, countsVars, itemVars, metricsVars, foldVars, shardVars>>

\* ------------------------------------------- calculate_counts on shards
\* the cases a call of calculate_counts is given
ShardOf(c) ==
    IF c = "whole" THEN results
    ELSE IF c = "first" THEN SubSeq(results, 1, split)
    ELSE SubSeq(results, split + 1, Len(results))

NextCall(c) == IF c = "whole" THEN "first"
               ELSE IF c = "first" THEN "second" ELSE "done"

ShardsIdle ==
    /\ split = 0
    /\ call = "whole"
    /\ returned = << >>

\* one iteration of the loop of the running call
ShardCase ==
    /\ script = "shards"
    /\ call # "done"
    /\ pc = "loop"
    /\ idx < Len(ShardOf(call))
    /\ LET case == ShardOf(call)[idx + 1]
       IN  CountsBody(case.dp, case.gen, case.smp)
    /\ UNCHANGED <<script, limitVars, chatVars, itemVars, metricsVars, foldVars, mainVars, shardVars>>

\* the running call returns overall_query, overall_item, type_counts (line
\* 138); the next call starts on accumulators and locals of its own
ShardReturn ==
    /\ script = "shards"
    /\ call # "done"
    /\ pc = "loop"
    /\ idx = Len(ShardOf(call))
    /\ returned' = [c \in DOMAIN returned \cup {call} |->
                       IF c = call
                       THEN [overall_query |-> overall_query,
                             overall_item |-> overall_item,
                             type_counts |-> type_counts]
                       ELSE returned[c]]
    /\ call' = NextCall(call)
    /\ pc' = "loop"
    /\ idx' = 0
    /\ data_point' = NoCase
    /\ overall_query' = ZeroCounts
    /\ overall_item' = ZeroCounts
    /\ type_counts' = << >>
    /\ generated_results' = Unbound
    /\ sample_results' = Unbound
    /\ caught' = NoCatch
    /\ cases' = NoCases
    /\ printed' = << >>
    /\ UNCHANGED <<script, limitVars, chatVars, split, itemVars, metricsVars, foldVars, mainVars>>

\* ------------------------- calculate_counts under either kind of failure
\* the case, with the exception of the given type in place of whatever its
\* failing execution raises
RaisingOnly(case, type) ==
    [case EXCEPT !.gen = IF @.type \in {"TimeoutError", "Exception"}
                         THEN Raises(type) ELSE @,
                 !.smp = IF @.type \in {"TimeoutError", "Exception"}
                         THEN Raises(type) ELSE @]

\* the dataset as a call sees it: every failure is the handler's TimeoutError
\* (line 30) in the call "TimeoutError", another exception in "Exception"
TwinOf(c) == [i \in DOMAIN results |-> RaisingOnly(results[i], c)]

\* one iteration of the loop of the running call
TwinCase ==
    /\ script = "twins"
    /\ call # "done"
    /\ pc = "loop"
    /\ idx < Len(results)
    /\ LET case == TwinOf(call)[idx + 1]
       IN  CountsBody(case.dp, case.gen, case.smp)
    /\ UNCHANGED <<script, limitVars, chatVars, itemVars, metricsVars, foldVars, mainVars, shardVars>>

\* the running call returns (line 138); the call with the other kind of
\* failure starts on accumulators and locals of its own
TwinReturn ==
    /\ script = "twins"
    /\ call # "done"
    /\ pc = "loop"
    /\ idx = Len(results)
    /\ returned' = [c \in DOMAIN returned \cup {call} |->
                       IF c = call
                       THEN [overall_query |-> overall_query,
                             overall_item |-> overall_item,
                             type_counts |-> type_counts]
                       ELSE returned[c]]
    /\ call' = IF returned # << >> THEN "done"
               ELSE IF call = "TimeoutError" THEN "Exception" ELSE "TimeoutError"
    /\ pc' = "loop"
    /\ idx' = 0
    /\ data_point' = NoCase
    /\ overall_query' = ZeroCounts
    /\ overall_item' = ZeroCounts
    /\ type_counts' = << >>
    /\ generated_results' = Unbound
    /\ sample_results' = Unbound
    /\ caught' = NoCatch
    /\ cases' = NoCases
    /\ printed' = << >>
    /\ UNCHANGED <<script, limitVars, chatVars, split, itemVars, metricsVars, foldVars, mainVars>>

\* ---------------------------------------------------------- time_limit
\* @time_limit(30)
Seconds == 30

\* mutant: alarm(0) leaves the pending alarm in place
signal_alarm_keeps(pending, seconds, id) == IF seconds = 0 THEN pending ELSE id

\* signal.alarm(seconds): the alarm pending after the call; one alarm per
\* process, a new one replaces the pending one, alarm(0) cancels it
signal_alarm(pending, seconds, id) == IF seconds = 0 THEN 0 ELSE id

\* everything but the wrapper and the signal state
notLimitVars == <<script, countsVars, itemVars, metricsVars, foldVars, mainVars,
                  shardVars, chatVars>>

LimitIdle ==
    /\ wrapper_pc = "caller"
    /\ calls = 0
    /\ alarm = 0
    /\ sigalrm = "default"
    /\ outcome = "none"
    /\ outcomes = << >>
    /\ timeouts = {}

\* the caller calls safe_query: wrapper(*args, **kwargs) is entered
WrapperCall ==
    /\ script = "time_limit"
    /\ wrapper_pc = "caller"
    /\ calls < MaxCalls
    /\ calls' = calls + 1
    /\ wrapper_pc' = "signal"
    /\ outcome' = "none"
    /\ UNCHANGED <<alarm, sigalrm, outcomes, timeouts,
                   notLimitVars>>

\* line 32: signal.signal(signal.SIGALRM, handler)
InstallHandler ==
    /\ script = "time_limit"
    /\ wrapper_pc = "signal"
    /\ sigalrm' = "handler"
    /\ wrapper_pc' = "alarm"
    /\ UNCHANGED <<calls, alarm, outcome, outcomes, timeouts,
                   notLimitVars>>

\* line 33: signal.alarm(seconds)
ArmAlarm ==
    /\ script = "time_limit"
    /\ wrapper_pc = "alarm"
    /\ alarm' = signal_alarm(alarm, Seconds, calls)
    /\ wrapper_pc' = "func"
    /\ UNCHANGED <<calls, sigalrm, outcome, outcomes, timeouts,
                   notLimitVars>>

\* line 35: func returns its rows, or raises an exception of its own
FuncEnds ==
    /\ script = "time_limit"
    /\ wrapper_pc = "func"
    /\ outcome' \in {"rows", "Exception"}
    /\ wrapper_pc' = "finally"
    /\ UNCHANGED <<calls, alarm, sigalrm, outcomes, timeouts,
                   notLimitVars>>

\* The pending alarm goes off, wherever the program is: the handler (lines
\* 29-30) raises TimeoutError there.  Inside func the exception leaves the
\* try and the finally clause runs; in the finally clause, before alarm(0),
\* it leaves the wrapper at once; anywhere else it is raised in the code
\* that is running then.
AlarmGoesOff ==
    /\ script = "time_limit"
    /\ alarm # 0
    /\ sigalrm = "handler"
    /\ alarm' = 0
    /\ timeouts' = timeouts \cup
           {[armed_by |-> alarm, at |-> wrapper_pc,
             during |-> IF wrapper_pc = "caller" THEN 0 ELSE calls]}
    /\ outcome' = "TimeoutError"
    /\ wrapper_pc' = IF wrapper_pc = "func" THEN "finally"
                     ELSE IF wrapper_pc = "caller" THEN "caller"
                     ELSE "exit"
    /\ UNCHANGED <<calls, sigalrm, outcomes,
                   notLimitVars>>

\* lines 36-37: finally: signal.alarm(0)
CancelAlarm ==
    /\ script = "time_limit"
    /\ wrapper_pc = "finally"
    /\ alarm' = signal_alarm(alarm, 0, calls)
    /\ wrapper_pc' = "exit"
    /\ UNCHANGED <<calls, sigalrm, outcome, outcomes, timeouts,
                   notLimitVars>>

\* the wrapper returns what func returned, or lets the exception through
WrapperExit ==
    /\ script = "time_limit"
    /\ wrapper_pc = "exit"
    /\ outcomes' = Append(outcomes, outcome)
    /\ wrapper_pc' = "caller"
    /\ UNCHANGED <<calls, alarm, sigalrm, outcome, timeouts,
                   notLimitVars>>

\* ------------------------------------------------- the chat front end
\* everything but the front end
notChatVars == <<script, countsVars, itemVars, metricsVars, foldVars, mainVars,
                 shardVars, limitVars>>

\* setup(): both conversations start empty
setup == [finetuned_messages |-> << >>, base_messages |-> << >>]

\* {"role": role, "content": content}
Message(role, content) == [role |-> role, content |-> content]

\* add_finetuned_message(role, content)
add_finetuned_message(state, role, content) ==
    [state EXCEPT !.finetuned_messages = Append(@, Message(role, content))]

\* mutant: the base model's message goes to the fine-tuned conversation
add_base_message_to_finetuned(state, role, content) ==
    [state EXCEPT !.finetuned_messages = Append(@, Message(role, content))]

\* add_base_message(role, content)
add_base_message(state, role, content) ==
    [state EXCEPT !.base_messages = Append(@, Message(role, content))]

\* the texts: the n-th prompt, and what the callbacks write for it; body is
\* what a model put into the text
Text(text, body, n) == [text |-> text, body |-> body, prompt |-> n]
PromptText(n) == Text("prompt", "", n)
GeneratingText(n) == Text("**Generating SparQL query**", "", n)
GeneratedText(n) == Text("**Generated SparQL query**", "generated_sparql_query", n)
FinalText(model, n) == Text("**Final response**", model, n)

ChatIdle ==
    /\ session_state = setup
    /\ prompt = 0
    /\ app_pc = "chat_input"
    /\ finetuned_pc = "none"
    /\ base_pc = "none"

Done(worker_pc) == worker_pc \in {"none", "returned", "raised"}

\* app.py 63-64: the user enters a prompt
ChatInput ==
    /\ script = "streamlit"
    /\ app_pc = "chat_input"
    /\ prompt < MaxPrompts
    /\ prompt' = prompt + 1
    /\ app_pc' = "add_finetuned_message"
    /\ finetuned_pc' = "none"
    /\ base_pc' = "none"
    /\ UNCHANGED <<session_state, notChatVars>>

\* app.py 65
AddFinetunedUserMessage ==
    /\ script = "streamlit"
    /\ app_pc = "add_finetuned_message"
    /\ session_state' = add_finetuned_message(session_state, "user", PromptText(prompt))
    /\ app_pc' = "add_base_message"
    /\ UNCHANGED <<prompt, finetuned_pc, base_pc, notChatVars>>

\* app.py 66
AddBaseUserMessage ==
    /\ script = "streamlit"
    /\ app_pc = "add_base_message"
    /\ session_state' = add_base_message(session_state, "user", PromptText(prompt))
    /\ app_pc' = "submit_finetuned"
    /\ UNCHANGED <<prompt, finetuned_pc, base_pc, notChatVars>>

\* app.py 103-114: executor.submit starts the fine-tuned worker (the model
\* name comes from the selectbox, so the check of api_call.py 89 passes)
SubmitFinetuned ==
    /\ script = "streamlit"
    /\ app_pc = "submit_finetuned"
    /\ finetuned_pc' = "on_generating_query_start"
    /\ app_pc' = "submit_base"
    /\ UNCHANGED <<session_state, prompt, base_pc, notChatVars>>

\* app.py 115-119: executor.submit starts the base worker
SubmitBase ==
    /\ script = "streamlit"
    /\ app_pc = "submit_base"
    /\ base_pc' = "get_natural_response"
    /\ app_pc' = "finetuned_result"
    /\ UNCHANGED <<session_state, prompt, finetuned_pc, notChatVars>>

\* app.py 122: future_finetuned.result() waits for the worker and raises
\* what it raised
FinetunedResult ==
    /\ script = "streamlit"
    /\ app_pc = "finetuned_result"
    /\ Done(finetuned_pc)
    /\ app_pc' = IF finetuned_pc = "returned" THEN "base_result" ELSE "shutdown"
    /\ UNCHANGED <<session_state, prompt, finetuned_pc, base_pc, notChatVars>>

\* app.py 123: future_base.result()
BaseResult ==
    /\ script = "streamlit"
    /\ app_pc = "base_result"
    /\ Done(base_pc)
    /\ app_pc' = IF base_pc = "returned" THEN "rerun" ELSE "shutdown"
    /\ UNCHANGED <<session_state, prompt, finetuned_pc, base_pc, notChatVars>>

\* app.py 102: an exception leaves the with block; the executor waits for
\* both workers, and the script run ends with the exception
Shutdown ==
    /\ script = "streamlit"
    /\ app_pc = "shutdown"
    /\ Done(finetuned_pc) /\ Done(base_pc)
    /\ app_pc' = "chat_input"
    /\ UNCHANGED <<session_state, prompt, finetuned_pc, base_pc, notChatVars>>

\* app.py 125: st.rerun()
Rerun ==
    /\ script = "streamlit"
    /\ app_pc = "rerun"
    /\ app_pc' = "chat_input"
    /\ UNCHANGED <<session_state, prompt, finetuned_pc, base_pc, notChatVars>>

\* api_call.py 95, app.py 72-77
OnGeneratingQueryStart ==
    /\ script = "streamlit"
    /\ finetuned_pc = "on_generating_query_start"
    /\ session_state' = add_finetuned_message(session_state, "assistant",
                                              GeneratingText(prompt))
    /\ finetuned_pc' = "generate_sparql"
    /\ UNCHANGED <<prompt, app_pc, base_pc, notChatVars>>

\* api_call.py 96, 104, 116: a call to the model server, to the graph
\* database or to the chat-completion API returns or raises
FinetunedCall ==
    /\ script = "streamlit"
    /\ finetuned_pc \in {"generate_sparql", "query_graph_db", "get_natural_response"}
    /\ \E ok \in BOOLEAN :
          finetuned_pc' =
              IF ~ok THEN "raised"
              ELSE IF finetuned_pc = "generate_sparql" THEN "on_query_generated"
              ELSE IF finetuned_pc = "query_graph_db" THEN "get_natural_response"
              ELSE "on_end"
    /\ UNCHANGED <<session_state, prompt, app_pc, base_pc, notChatVars>>

\* api_call.py 100, app.py 79-84
OnQueryGenerated ==
    /\ script = "streamlit"
    /\ finetuned_pc = "on_query_generated"
    /\ session_state' = add_finetuned_message(session_state, "assistant",
                                              GeneratedText(prompt))
    /\ finetuned_pc' = "query_graph_db"
    /\ UNCHANGED <<prompt, app_pc, base_pc, notChatVars>>

\* api_call.py 120-121, app.py 86-91
OnFinetunedResponseEnd ==
    /\ script = "streamlit"
    /\ finetuned_pc = "on_end"
    /\ session_state' = add_finetuned_message(session_state, "assistant",
                                              FinalText("finetuned", prompt))
    /\ finetuned_pc' = "returned"
    /\ UNCHANGED <<prompt, app_pc, base_pc, notChatVars>>

\* api_call.py 125: the chat-completion call returns or raises
BaseCall ==
    /\ script = "streamlit"
    /\ base_pc = "get_natural_response"
    /\ \E ok \in BOOLEAN : base_pc' = IF ok THEN "on_end" ELSE "raised"
    /\ UNCHANGED <<session_state, prompt, app_pc, finetuned_pc, notChatVars>>

\* api_call.py 126-127, app.py 93-98
OnBaseResponseEnd ==
    /\ script = "streamlit"
    /\ base_pc = "on_end"
    /\ session_state' = add_base_message(session_state, "assistant",
                                         FinalText("base", prompt))
    /\ base_pc' = "returned"
    /\ UNCHANGED <<prompt, app_pc, finetuned_pc, notChatVars>>

\* ------------------------------------------------------------ the scripts
Init ==
    /\ script \in {"run_metrics_to_csv", "run_metrics_to_csv_DeepSeek"}
    /\ CountsInit
    /\ ItemsInit
    /\ metrics_arg = ZeroCounts
    /\ MetricsIdle
    /\ fold_cases = << >>
    /\ FoldIdle
    /\ results = << >>
    /\ MainIdle
    /\ LimitIdle
    /\ ChatIdle
    /\ ShardsIdle

Next == CountsCase \/ CountsReturn \/ ItemsCase \/ ItemsReturn

Spec == Init /\ [][Next]_vars

\* a run of run_metrics_to_csv.py alone
CountsNext == CountsCase \/ CountsReturn
CountsStart == Init /\ script = "run_metrics_to_csv"
SpecCounts == CountsStart /\ [][CountsNext]_vars

\* a run of run_metrics_to_csv_DeepSeek.py alone
ItemsNext == ItemsCase \/ ItemsReturn
ItemsStart == Init /\ script = "run_metrics_to_csv_DeepSeek"
SpecItems == ItemsStart /\ [][ItemsNext]_vars

\* calls of compute_metrics, of either script, on counts of any size
MetricsStart ==
    /\ script = "compute_metrics"
    /\ CountsInit
    /\ ItemsInit
    /\ metrics_arg \in CountsArgs
    /\ MetricsIdle
    /\ fold_cases = << >>
    /\ FoldIdle
    /\ results = << >>
    /\ MainIdle
    /\ LimitIdle
    /\ ChatIdle
    /\ ShardsIdle
MetricsNext == ComputeMetrics \/ DsComputeMetrics
SpecMetrics == MetricsStart /\ [][MetricsNext]_vars

\* the accumulation statements of either script on two cases, in both orders
FoldStart ==
    /\ CountsInit
    /\ ItemsInit
    /\ metrics_arg = ZeroCounts
    /\ MetricsIdle
    /\ \/ /\ script = "run_metrics_to_csv"
          /\ fold_cases \in CountsContributions \X CountsContributions
          /\ fold_ab = ZeroBucket
          /\ fold_ba = ZeroBucket
       \/ /\ script = "run_metrics_to_csv_DeepSeek"
          /\ fold_cases \in ItemContributions \X ItemContributions
          /\ fold_ab = ZeroItemCounts
          /\ fold_ba = ZeroItemCounts
    /\ fold_pc = 0
    /\ results = << >>
    /\ MainIdle
    /\ LimitIdle
    /\ ChatIdle
    /\ ShardsIdle
FoldNext == FoldCountsCase \/ FoldItemsCase
SpecFold == FoldStart /\ [][FoldNext]_vars

\* main of run_metrics_to_csv.py on any dataset
MainStart ==
    /\ script = "main"
    /\ CountsInit
    /\ ItemsInit
    /\ metrics_arg = ZeroCounts
    /\ MetricsIdle
    /\ fold_cases = << >>
    /\ FoldIdle
    /\ results \in Datasets
    /\ MainIdle
    /\ LimitIdle
    /\ ChatIdle
    /\ ShardsIdle
MainNext == MainCase \/ MainReturn \/ MainAnalysis \/ MainWrite
SpecMain == MainStart /\ [][MainNext]_vars

\* calculate_counts on any dataset, then on the two shards of any split of it
ShardsStart ==
    /\ script = "shards"
    /\ CountsInit
    /\ ItemsInit
    /\ metrics_arg = ZeroCounts
    /\ MetricsIdle
    /\ fold_cases = << >>
    /\ FoldIdle
    /\ results \in Datasets
    /\ MainIdle
    /\ LimitIdle
    /\ ChatIdle
    /\ split \in 0..Len(results)
    /\ call = "whole"
    /\ returned = << >>
ShardsNext == ShardCase \/ ShardReturn
SpecShards == ShardsStart /\ [][ShardsNext]_vars

\* calculate_counts on any dataset, once for each kind of failure, in either
\* order
TwinsStart ==
    /\ script = "twins"
    /\ CountsInit
    /\ ItemsInit
    /\ metrics_arg = ZeroCounts
    /\ MetricsIdle
    /\ fold_cases = << >>
    /\ FoldIdle
    /\ results \in Datasets
    /\ MainIdle
    /\ LimitIdle
    /\ ChatIdle
    /\ split = 0
    /\ call \in {"TimeoutError", "Exception"}
    /\ returned = << >>
TwinsNext == TwinCase \/ TwinReturn
SpecTwins == TwinsStart /\ [][TwinsNext]_vars

\* calls of safe_query under time_limit, one after the other
LimitStart ==
    /\ script = "time_limit"
    /\ CountsInit
    /\ ItemsInit
    /\ metrics_arg = ZeroCounts
    /\ MetricsIdle
    /\ fold_cases = << >>
    /\ FoldIdle
    /\ results = << >>
    /\ MainIdle
    /\ LimitIdle
    /\ ChatIdle
    /\ ShardsIdle
LimitNext ==
    \/ WrapperCall
    \/ InstallHandler
    \/ ArmAlarm
    \/ FuncEnds
    \/ AlarmGoesOff
    \/ CancelAlarm
    \/ WrapperExit
SpecLimit == LimitStart /\ [][LimitNext]_vars

\* the chat front end handling one prompt after the other
ChatStart ==
    /\ script = "streamlit"
    /\ CountsInit
    /\ ItemsInit
    /\ metrics_arg = ZeroCounts
    /\ MetricsIdle
    /\ fold_cases = << >>
    /\ FoldIdle
    /\ results = << >>
    /\ MainIdle
    /\ LimitIdle
    /\ ChatIdle
    /\ ShardsIdle
ChatNext ==
    \/ ChatInput
    \/ AddFinetunedUserMessage
    \/ AddBaseUserMessage
    \/ SubmitFinetuned
    \/ SubmitBase
    \/ FinetunedResult
    \/ BaseResult
    \/ Shutdown
    \/ Rerun
    \/ OnGeneratingQueryStart
    \/ FinetunedCall
    \/ OnQueryGenerated
    \/ OnFinetunedResponseEnd
    \/ BaseCall
    \/ OnBaseResponseEnd
SpecChat == ChatStart /\ [][ChatNext]_vars

\* ============================================================ properties
\* the entry of a bucket, all zero while the bucket does not exist
Bucket(tc, qtype) == IF qtype \in DOMAIN tc THEN tc[qtype] ELSE ZeroBucket
ItemBucket(tc, qtype) == IF qtype \in DOMAIN tc THEN tc[qtype] ELSE ZeroItemCounts

\* calculate_counts has processed one more case
CountsStep == script = "run_metrics_to_csv" /\ idx' = idx + 1

\* calculate_item_metrics has processed one more case
ItemsStep == script = "run_metrics_to_csv_DeepSeek" /\ ds_idx' = ds_idx + 1

\* the case just processed by calculate_counts had a query execution raise
Failed(c) == c.type \in {"TimeoutError", "Exception"}

\* the case just processed by calculate_counts had both queries executed
Executed(dp, c) == HasBothQueries(dp) /\ c.type = "none"

\* what a step adds to one field of a counts dict
Delta(before, after, field) == after[field] - before[field]

\* a step adds tp, fn, fp to the item-level fields
AddsItems(before, after, tp, fn, fp) ==
    /\ Delta(before, after, "TP") = tp
    /\ Delta(before, after, "FN") = fn
    /\ Delta(before, after, "FP") = fp

\* C1: a case whose candidate or gold execution raises adds exactly 1 to the
\* query-level FN of its category bucket and of the overall bucket, and adds
\* nothing to the item-level TP, FN and FP of either, wherever it stands in
\* the dataset.
C1_FailedCaseCountsOnlyQueryFN ==
    [][(CountsStep /\ Failed(caught')) =>
         LET q == QType(data_point')
         IN  /\ overall_query' = Add(overall_query, "FN", 1)
             /\ Bucket(type_counts', q).query_level =
                    Add(Bucket(type_counts, q).query_level, "FN", 1)
             /\ AddsItems(overall_item, overall_item', 0, 0, 0)
             /\ AddsItems(Bucket(type_counts, q).item_level,
                          Bucket(type_counts', q).item_level, 0, 0, 0)]_vars

\* C2: an execution failure never aborts the pass: calculate_counts never
\* ends in an exception, whichever cases fail to execute.
C2_FailureNeverAborts == pc # "raised"

\* C3: an executed case with gold set G and candidate set C adds
\* tp = |G & C|, fn = |G - C| and fp = |C - G| to the item-level counts of the
\* overall bucket and of its category bucket, in calculate_counts (G and C
\* the rows the two executions returned) and in calculate_item_metrics (G
\* and C the sets of the two answer lists).
C3_ItemCountsAreSetArithmetic ==
    [][/\ (CountsStep /\ Executed(data_point', caught')) =>
            LET G == sample_results'.val
                C == generated_results'.val
                q == QType(data_point')
                tp == Cardinality(G \cap C)
                fn == Cardinality(G \ C)
                fp == Cardinality(C \ G)
            IN  /\ AddsItems(overall_item, overall_item', tp, fn, fp)
                /\ AddsItems(Bucket(type_counts, q).item_level,
                             Bucket(type_counts', q).item_level, tp, fn, fp)
       /\ (ItemsStep /\ ds_data_point'.answer.kind = "list"
                     /\ ds_data_point'.deepseek_answer.kind = "list") =>
            LET G == {ds_data_point'.answer.l[i] : i \in DOMAIN ds_data_point'.answer.l}
                C == {ds_data_point'.deepseek_answer.l[i] :
                         i \in DOMAIN ds_data_point'.deepseek_answer.l}
                q == QType(ds_data_point')
                tp == Cardinality(G \cap C)
                fn == Cardinality(G \ C)
                fp == Cardinality(C \ G)
            IN  /\ AddsItems(overall_counts, overall_counts', tp, fn, fp)
                /\ AddsItems(ItemBucket(ds_type_counts, q),
                             ItemBucket(ds_type_counts', q), tp, fn, fp)]_vars

\* an executed case with a common row and a missed row has been scored
C3_Witness ==
    /\ script = "run_metrics_to_csv"
    /\ idx = 1
    /\ Executed(data_point, caught)
    /\ sample_results.val = {1, 2}
    /\ generated_results.val = {1}
    /\ overall_item = [TP |-> 1, FN |-> 1, FP |-> 0, TN |-> 0]

\* C4: the item-level counts a case adds satisfy tp + fn = |gold| and
\* tp + fp = |candidate|, for the result sets of an executed case of
\* calculate_counts and for the two answer sets of a case of
\* calculate_item_metrics.
C4_ItemCountsPartitionTheSets ==
    [][/\ (CountsStep /\ Executed(data_point', caught')) =>
            /\ Delta(overall_item, overall_item', "TP")
                 + Delta(overall_item, overall_item', "FN")
                   = Cardinality(sample_results'.val)
            /\ Delta(overall_item, overall_item', "TP")
                 + Delta(overall_item, overall_item', "FP")
                   = Cardinality(generated_results'.val)
       /\ ItemsStep =>
            /\ Delta(overall_counts, overall_counts', "TP")
                 + Delta(overall_counts, overall_counts', "FN")
                   = Cardinality(CorrectAnswers(ds_data_point'))
            /\ Delta(overall_counts, overall_counts', "TP")
                 + Delta(overall_counts, overall_counts', "FP")
                   = Cardinality(DeepseekAnswer(ds_data_point'))]_vars

\* a case of calculate_item_metrics with a two-element gold set, one of its
\* elements answered, has been scored
C4_Witness ==
    /\ script = "run_metrics_to_csv_DeepSeek"
    /\ ds_idx = 1
    /\ ds_data_point.answer.l = <<"a", "YES">>
    /\ ds_data_point.deepseek_answer.l = <<"YES">>
    /\ overall_counts = [TP |-> 1, FN |-> 1, FP |-> 0]

\* C5: when both queries of a case execute, the case adds 1 to query-level TP
\* if the gold rows equal the candidate rows as sets and 1 to query-level FN
\* otherwise; on an exact match it adds tp = |gold|, fn = 0, fp = 0 to the
\* item-level counts.
C5_QueryLevelIsExactMatch ==
    [][(CountsStep /\ Executed(data_point', caught')) =>
         LET G == sample_results'.val
             C == generated_results'.val
             q == QType(data_point')
             field == IF G = C THEN "TP" ELSE "FN"
         IN  /\ overall_query' = Add(overall_query, field, 1)
             /\ Bucket(type_counts', q).query_level =
                    Add(Bucket(type_counts, q).query_level, field, 1)
             /\ G = C =>
                  /\ AddsItems(overall_item, overall_item', Cardinality(G), 0, 0)
                  /\ AddsItems(Bucket(type_counts, q).item_level,
                               Bucket(type_counts', q).item_level,
                               Cardinality(G), 0, 0)]_vars

\* an exact match on a non-empty result set has been scored
C5_Witness ==
    /\ script = "run_metrics_to_csv"
    /\ idx = 1
    /\ Executed(data_point, caught)
    /\ sample_results.val = {1, 2}
    /\ generated_results.val = {1, 2}
    /\ overall_query = [TP |-> 1, FN |-> 0, FP |-> 0, TN |-> 0]
    /\ overall_item = [TP |-> 2, FN |-> 0, FP |-> 0, TN |-> 0]

C8_MalformedCaseAddsNothing ==
    [][(ItemsStep /\ (\/ ds_data_point'.answer.kind # "list"
                      \/ ds_data_point'.deepseek_answer.kind = "missing")) =>
         LET q == QType(ds_data_point')
         IN  /\ AddsItems(overall_counts, overall_counts', 0, 0, 0)
             /\ AddsItems(ItemBucket(ds_type_counts, q),
                          ItemBucket(ds_type_counts', q), 0, 0, 0)]_vars

\* C9: the query-level TN and FP of the overall bucket and of every category
\* bucket are 0 in every state of a pass of calculate_counts.
C9_QueryLevelTNAndFPStayZero ==
    script = "run_metrics_to_csv" =>
        /\ overall_query.TN = 0 /\ overall_query.FP = 0
        /\ \A q \in DOMAIN type_counts :
               type_counts[q].query_level.TN = 0 /\ type_counts[q].query_level.FP = 0

\* a pass has scored a match and caught a failure, in two categories
C9_Witness ==
    /\ script = "run_metrics_to_csv"
    /\ Failed(caught)
    /\ overall_query.TP = 1
    /\ overall_query.FN = 1
    /\ DOMAIN type_counts = {"actor_to_movie", "unknown"}

BothComputed == computed = {"run_metrics_to_csv", "run_metrics_to_csv_DeepSeek"}

\* the metric x was returned (nothing was raised) and its value is 0
IsZero(x) == ~Raised(x) /\ x.num = 0

\* the metric x was returned and its value is n / d
IsFrac(x, n, d) == ~Raised(x) /\ d # 0 /\ x.num * d = n * x.den

RateNames == {"accuracy", "error_rate", "precision", "recall", "f1_score",
              "false_negative_rate", "false_positive_rate"}
DsRateNames == {"precision", "recall", "f1_score"}

\* C14: compute_metrics never divides by zero.  Whatever the counts, neither
\* script's compute_metrics raises; a metric whose denominator (support,
\* TP+FP, TP+FN, precision+recall) is 0 has the value 0; all-zero counts give
\* every metric the value 0, error_rate included.
C14_NeverDividesByZero ==
    LET c == metrics_arg IN
    /\ "run_metrics_to_csv" \in computed =>
        /\ \A m \in RateNames : ~Raised(metrics[m])
        /\ c.TP + c.FN + c.FP + c.TN = 0 =>
              /\ metrics.support = 0
              /\ IsZero(metrics.accuracy)
              /\ IsZero(metrics.error_rate)
        /\ c.TP + c.FP = 0 =>
              IsZero(metrics.precision) /\ IsZero(metrics.false_positive_rate)
        /\ c.TP + c.FN = 0 =>
              IsZero(metrics.recall) /\ IsZero(metrics.false_negative_rate)
        /\ IsZero(metrics.precision) /\ IsZero(metrics.recall) =>
              IsZero(metrics.f1_score)
        /\ c = ZeroCounts => \A m \in RateNames : IsZero(metrics[m])
    /\ "run_metrics_to_csv_DeepSeek" \in computed =>
        /\ \A m \in DsRateNames : ~Raised(ds_metrics[m])
        /\ c.TP + c.FP = 0 => IsZero(ds_metrics.precision)
        /\ c.TP + c.FN = 0 => IsZero(ds_metrics.recall)
        /\ IsZero(ds_metrics.precision) /\ IsZero(ds_metrics.recall) =>
              IsZero(ds_metrics.f1_score)
        /\ c = ZeroCounts => \A m \in DsRateNames : IsZero(ds_metrics[m])

\* both functions have returned for counts where TP+FP is 0 and support is not
C14_Witness ==
    /\ BothComputed
    /\ metrics_arg.TP + metrics_arg.FP = 0
    /\ metrics_arg.FN > 0
    /\ IsZero(metrics.precision)
    /\ IsZero(ds_metrics.f1_score)

\* the eight metrics of the claim, for counts c, in the record m;
\* 1 - (TP+TN)/support is (FN+FP)/support, and 2pr/(p+r) with p = TP/(TP+FP)
\* and r = TP/(TP+FN) is 2TP/(2TP+FP+FN)
EightMetrics(m, c) ==
    /\ {"support"} \cup RateNames \subseteq DOMAIN m
    /\ m.support = c.TP + c.FN + c.FP + c.TN
    /\ IsFrac(m.accuracy, c.TP + c.TN, c.TP + c.FN + c.FP + c.TN)
    /\ IsFrac(m.error_rate, c.FN + c.FP, c.TP + c.FN + c.FP + c.TN)
    /\ IsFrac(m.precision, c.TP, c.TP + c.FP)
    /\ IsFrac(m.recall, c.TP, c.TP + c.FN)
    /\ IsFrac(m.f1_score, 2 * c.TP, 2 * c.TP + c.FP + c.FN)
    /\ IsFrac(m.false_negative_rate, c.FN, c.TP + c.FN)
    /\ IsFrac(m.false_positive_rate, c.FP, c.TP + c.FP)

\* support, TP+FP, TP+FN and precision+recall are all non-zero
NonZeroDenominators(c) == c.TP > 0

\* C15 as stated: for counts with non-zero denominators compute_metrics, of
\* either script, returns the eight metrics with the values of the formulas.
C15_EightMetricsEverywhere ==
    BothComputed /\ NonZeroDenominators(metrics_arg) =>
        /\ EightMetrics(metrics, metrics_arg)
        /\ EightMetrics(ds_metrics, metrics_arg)

\* C15: for counts with non-zero denominators compute_metrics of
\* run_metrics_to_csv.py returns the eight metrics with the values of the
\* formulas; compute_metrics of run_metrics_to_csv_DeepSeek.py returns
\* precision, recall and f1 with the same formulas, next to the TP, FN and FP
\* it was given, and no other metric.
C15_MetricsFollowTheFormulas ==
    LET c == metrics_arg IN
    /\ "run_metrics_to_csv" \in computed /\ NonZeroDenominators(c) =>
          EightMetrics(metrics, c)
    /\ "run_metrics_to_csv_DeepSeek" \in computed /\ NonZeroDenominators(c) =>
        /\ DOMAIN ds_metrics = DsRateNames \cup {"TP", "FN", "FP"}
        /\ IsFrac(ds_metrics.precision, c.TP, c.TP + c.FP)
        /\ IsFrac(ds_metrics.recall, c.TP, c.TP + c.FN)
        /\ IsFrac(ds_metrics.f1_score, 2 * c.TP, 2 * c.TP + c.FP + c.FN)
        /\ ds_metrics.TP = c.TP /\ ds_metrics.FN = c.FN /\ ds_metrics.FP = c.FP

\* both functions have returned for counts with no zero among them
C15_Witness ==
    /\ BothComputed
    /\ \A f \in {"TP", "FN", "FP", "TN"} : metrics_arg[f] > 0
    /\ metrics.accuracy.num > 0
    /\ ds_metrics.f1_score.num > 0

\* ------------------------------------------------------ accumulator claims
\* no field of the counts dict is negative, and none is smaller after
NeverDecreases(before, after) ==
    \A f \in DOMAIN before : 0 <= before[f] /\ before[f] <= after[f]

NonNegative(c) == \A f \in DOMAIN c : c[f] >= 0

\* C13: during a pass no count of any bucket, at either granularity, is
\* negative or decreases from one processed case to the next, in both
\* scripts; every count is zero when the pass starts, and no bucket is
\* zeroed again or dropped afterwards.
C13_CountsNeverDecrease ==
    [][/\ CountsStep =>
            /\ NeverDecreases(overall_query, overall_query')
            /\ NeverDecreases(overall_item, overall_item')
            /\ DOMAIN type_counts \subseteq DOMAIN type_counts'
            /\ \A q \in DOMAIN type_counts :
                  /\ NeverDecreases(type_counts[q].query_level,
                                    type_counts'[q].query_level)
                  /\ NeverDecreases(type_counts[q].item_level,
                                    type_counts'[q].item_level)
            /\ \A q \in DOMAIN type_counts' :
                  /\ NonNegative(type_counts'[q].query_level)
                  /\ NonNegative(type_counts'[q].item_level)
            /\ idx = 0 => /\ overall_query = ZeroCounts
                          /\ overall_item = ZeroCounts
                          /\ type_counts = << >>
       /\ ItemsStep =>
            /\ NeverDecreases(overall_counts, overall_counts')
            /\ DOMAIN ds_type_counts \subseteq DOMAIN ds_type_counts'
            /\ \A q \in DOMAIN ds_type_counts :
                  NeverDecreases(ds_type_counts[q], ds_type_counts'[q])
            /\ \A q \in DOMAIN ds_type_counts' : NonNegative(ds_type_counts'[q])
            /\ ds_idx = 0 => /\ overall_counts = ZeroItemCounts
                             /\ ds_type_counts = << >>]_vars

\* two cases of one category have been processed and both added to its bucket
C13_Witness ==
    /\ script = "run_metrics_to_csv"
    /\ idx = 2
    /\ DOMAIN type_counts = {"actor_to_movie"}
    /\ type_counts["actor_to_movie"].query_level.TP = 1
    /\ type_counts["actor_to_movie"].query_level.FN = 1
    /\ type_counts["actor_to_movie"].item_level.FP > 1

\* the sum of the values of a function with a finite domain
RECURSIVE SumOf(_)
SumOf(f) ==
    IF DOMAIN f = {} THEN 0
    ELSE LET q == CHOOSE x \in DOMAIN f : TRUE
         IN  f[q] + SumOf([x \in DOMAIN f \ {q} |-> f[x]])

\* C19: in every state of a pass each field of the overall bucket is the sum
\* of that field over the category buckets: query-level and item-level in
\* calculate_counts, item-level in calculate_item_metrics.
C19_OverallIsSumOfCategories ==
    /\ \A f \in DOMAIN ZeroCounts :
          /\ overall_query[f] =
                SumOf([q \in DOMAIN type_counts |-> type_counts[q].query_level[f]])
          /\ overall_item[f] =
                SumOf([q \in DOMAIN type_counts |-> type_counts[q].item_level[f]])
    /\ \A f \in DOMAIN ZeroItemCounts :
          overall_counts[f] =
              SumOf([q \in DOMAIN ds_type_counts |-> ds_type_counts[q][f]])

\* two categories have each received a case with answers of its own
C19_Witness ==
    /\ script = "run_metrics_to_csv_DeepSeek"
    /\ ds_idx = 2
    /\ DOMAIN ds_type_counts = {"actor_to_movie", "unknown"}
    /\ ds_type_counts["actor_to_movie"].TP > 0
    /\ ds_type_counts["unknown"].FN > 0
    /\ overall_counts.TP > 0 /\ overall_counts.FN > 0

\* the category a case is filed under
Category(dp) == IF dp.question_type = None THEN "unknown" ELSE dp.question_type

\* the item-level fold of calculate_counts ran in the step
FoldRan == HasBothQueries(data_point') /\ pc' # "raised"

\* C20: processing a case of category c neither creates nor changes the
\* bucket of any other category, in both scripts; in calculate_counts the
\* item-level counts of the case's bucket and of the overall bucket change
\* only by the item-level fold of that iteration (lines 126-136): they are
\* the fold of the iteration's two result sets when it ran, and unchanged
\* when it did not, whatever was added at query level.
C20_OtherBucketsAreUntouched ==
    [][/\ CountsStep =>
            LET c == Category(data_point')
                before == Bucket(type_counts, c).item_level
                after == Bucket(type_counts', c).item_level
            IN  /\ \A q \in DOMAIN type_counts' \ {c} :
                      q \in DOMAIN type_counts /\ type_counts'[q] = type_counts[q]
                /\ FoldRan =>
                      /\ after = AddItems(before, generated_results'.val,
                                          sample_results'.val)
                      /\ overall_item' = AddItems(overall_item, generated_results'.val,
                                                  sample_results'.val)
                /\ ~FoldRan => after = before /\ overall_item' = overall_item
       /\ ItemsStep =>
            \A q \in DOMAIN ds_type_counts' \ {Category(ds_data_point')} :
                q \in DOMAIN ds_type_counts /\ ds_type_counts'[q] = ds_type_counts[q]]_vars

\* a failing case of one category has been processed after a case of the
\* other category: query-level FN was added, the other bucket kept its counts
C20_Witness ==
    /\ script = "run_metrics_to_csv"
    /\ idx = 2
    /\ Category(data_point) = "actor_to_movie"
    /\ Failed(caught)
    /\ DOMAIN type_counts = {"actor_to_movie", "unknown"}
    /\ type_counts["unknown"].query_level.TP = 1
    /\ type_counts["unknown"].item_level.TP > 0
    /\ type_counts["actor_to_movie"].query_level.FN = 1

\* ----------------------------------------------------------- failure claims
\* C17: the evaluator reports its failures: a case whose execution raises is
\* logged, with its index, by a line of its own (the progress line is
\* printed for every case, before it is known to fail), and the number of
\* failed cases is an output of the pass.
C17_FailuresAreLogged ==
    [][(CountsStep /\ Failed(caught')) =>
          \E i \in (Len(printed) + 1)..Len(printed') :
              /\ printed'[i].idx = idx'
              /\ printed'[i] # ProgressLine(idx')]_vars

\* the counts a case is to add, from the case and its own executions alone:
\* nothing for a case lacking a query, query-level FN and no item for a
\* failed case, the comparison of its two result sets for an executed case
OwnCounts(dp, c, generated, sample) ==
    IF ~HasBothQueries(dp)
    THEN [query_level |-> ZeroCounts, item_level |-> ZeroCounts]
    ELSE IF Failed(c)
    THEN [query_level |-> [ZeroCounts EXCEPT !.FN = 1], item_level |-> ZeroCounts]
    ELSE [query_level |-> [ZeroCounts EXCEPT ![IF generated = sample THEN "TP"
                                               ELSE "FN"] = 1],
          item_level |-> [ZeroCounts EXCEPT !.TP = Cardinality(generated \cap sample),
                                            !.FN = Cardinality(sample \ generated),
                                            !.FP = Cardinality(generated \ sample)]]

\* after is before plus add, field by field
Plus(before, add, after) == \A f \in DOMAIN before : after[f] = before[f] + add[f]

\* C18: what a case adds to its buckets is a function of that case alone: a
\* case is compared in full, on its own two result sets, or marked FAILED in
\* full; no result set of an earlier case, and no candidate result obtained
\* before the gold execution of the same case failed, enters the counts.
C18_CountsDependOnTheCaseAlone ==
    [][CountsStep =>
          LET dp == data_point'
              own == OwnCounts(dp, caught', generated_results'.val,
                               sample_results'.val)
              q == Category(dp)
          IN  /\ Plus(overall_query, own.query_level, overall_query')
              /\ Plus(overall_item, own.item_level, overall_item')
              /\ Plus(Bucket(type_counts, q).query_level, own.query_level,
                      Bucket(type_counts', q).query_level)
              /\ Plus(Bucket(type_counts, q).item_level, own.item_level,
                      Bucket(type_counts', q).item_level)]_vars

\* ------------------------------------------------------- accumulation claim
\* C11: accumulation is commutative: for any two cases a and b, the bucket
\* that received a then b and the bucket that received b then a, both
\* starting from zero, hold the same TP, FN, FP and TN, at query level and at
\* item level, for the accumulation statements of both scripts.
C11_AccumulationCommutes == fold_pc = 2 => fold_ab = fold_ba

\* a matching case and a failed case with results of its own have been
\* accumulated in both orders
C11_Witness ==
    /\ script = "run_metrics_to_csv"
    /\ fold_pc = 2
    /\ ~fold_cases[1].failed /\ fold_cases[1].generated = fold_cases[1].sample
    /\ fold_cases[2].failed /\ fold_cases[2].generated # fold_cases[2].sample
    /\ fold_ab.query_level.TP = 1 /\ fold_ab.query_level.FN = 1
    /\ fold_ab.item_level.TP > 0 /\ fold_ab.item_level.FP > 0

\* -------------------------------------------------------------- main claims
\* every value of the dict is the number 0
AllZero(dict) == \A k \in DOMAIN dict : IsZero(dict[k])

\* C16: on an empty dataset the pass creates no category bucket, and the
\* report has the rows of the overall analysis and no other; every count,
\* every metric and every average item-level count per query in it is 0.
C16_EmptyDatasetReportsZeros ==
    (script = "main" /\ results = << >>) =>
        /\ type_counts = << >>
        /\ main_pc \in {"write", "done"} =>
              /\ per_type_analysis = << >>
              /\ overall_query = ZeroCounts
              /\ overall_item = ZeroCounts
              /\ overall_query_metrics.support = 0
              /\ overall_item_metrics.support = 0
              /\ \A m \in RateNames : /\ IsZero(overall_query_metrics[m])
                                      /\ IsZero(overall_item_metrics[m])
              /\ AllZero(avg_item_counts_overall)
        /\ main_pc = "done" =>
              /\ Len(report) = 3 * Len(CountKeys) + 2 * Len(MetricKeys)
              /\ \A i \in DOMAIN report :
                    /\ report[i][1] = "Overall Analysis"
                    /\ report[i][5].value = 0

\* main has written the report of an empty dataset
C16_Witness ==
    /\ script = "main"
    /\ results = << >>
    /\ pc = "returned"
    /\ main_pc = "done"
    /\ Len(report) = 28
    /\ report[6] = <<"Overall Analysis", "Overall Query-Level Metrics", "Metrics",
                     "accuracy", [format |-> ".4f", value |-> 0]>>

\* ----------------------------------------------------------- sharding claim
\* field-wise addition of two counts dicts
PlusCounts(a, b) == [f \in DOMAIN a |-> a[f] + b[f]]

\* field-wise addition of what two calls returned, category by category
Merged(a, b) ==
    [overall_query |-> PlusCounts(a.overall_query, b.overall_query),
     overall_item |-> PlusCounts(a.overall_item, b.overall_item),
     type_counts |->
        [q \in DOMAIN a.type_counts \cup DOMAIN b.type_counts |->
            [query_level |-> PlusCounts(Bucket(a.type_counts, q).query_level,
                                        Bucket(b.type_counts, q).query_level),
             item_level |-> PlusCounts(Bucket(a.type_counts, q).item_level,
                                       Bucket(b.type_counts, q).item_level)]]]

\* C12: sharded accumulation agrees with a single pass: whenever one pass
\* over a dataset returns, calculate_counts on each of the two shards of any
\* split returns too, and the field-wise sum of what the two return is what
\* the single pass returned, overall and per category, at query level and at
\* item level.
C12_ShardsAgreeWithSinglePass ==
    (script = "shards" /\ "whole" \in DOMAIN returned) =>
        /\ pc # "raised"
        /\ call = "done" => Merged(returned.first, returned.second) = returned.whole

\* ------------------------------------------------------------ report claims
\* the averages avg are those of a bucket with the given query-level and
\* item-level counts
IsAverageOf(avg, query_counts, item_counts) ==
    LET sum == query_counts.TP + query_counts.FN + query_counts.FP + query_counts.TN
    IN  \A f \in {"TP", "FN", "FP", "TN"} :
            IF sum = 0 THEN IsZero(avg[f])
            ELSE IsFrac(avg[f], item_counts[f], sum)

\* C23: for the overall bucket and for every category bucket, each average
\* item-level count per query that main computes is the bucket's item-level
\* count divided by the bucket's query-level TP+FN+FP+TN, and all four are 0
\* when that sum is 0.
C23_AveragesAreItemCountsPerQuery ==
    (script = "main" /\ main_pc \in {"write", "done"}) =>
        /\ IsAverageOf(avg_item_counts_overall, overall_query, overall_item)
        /\ DOMAIN per_type_analysis = DOMAIN type_counts
        /\ \A q \in DOMAIN type_counts :
              IsAverageOf(per_type_analysis[q].average_item_counts_per_query,
                          type_counts[q].query_level, type_counts[q].item_level)

\* a matching case and a mismatching one have been averaged: one extra row
\* over two valid queries overall, and a bucket without a valid query
C23_Witness ==
    /\ script = "main"
    /\ main_pc = "done"
    /\ overall_query = [TP |-> 1, FN |-> 1, FP |-> 0, TN |-> 0]
    /\ overall_item.FP = 1
    /\ avg_item_counts_overall.FP = Frac(1, 2)
    /\ per_type_analysis["unknown"].average_item_counts_per_query.FP = Frac(1, 1)

\* the categories of the cases of a dataset, in the order first seen
RECURSIVE FirstSeen(_)
FirstSeen(dataset) ==
    IF dataset = << >> THEN << >>
    ELSE LET before == FirstSeen(SubSeq(dataset, 1, Len(dataset) - 1))
             c == Category(dataset[Len(dataset)].dp)
         IN  IF \E i \in DOMAIN before : before[i] = c THEN before
             ELSE Append(before, c)

\* the number of rows the report gives to one bucket
RowsPerBucket == 3 * Len(CountKeys) + 2 * Len(MetricKeys)

\* C22: buckets are created lazily: at any point of the pass the buckets are
\* those of the categories of the cases processed so far, and a bucket
\* created by a case holds nothing but what that case added to zero.  The
\* report gives every category bucket its rows in one block, the blocks in
\* the order the categories were first seen in the dataset, and the rows of
\* the overall bucket come last.
C22_BucketsAreLazyAndReportedInOrder ==
    script = "main" =>
        /\ DOMAIN type_counts = {Category(results[i].dp) : i \in 1..idx}
        /\ \A q \in DOMAIN type_counts :
              (\A i \in 1..idx : Category(results[i].dp) = q =>
                                    ~HasBothQueries(results[i].dp))
                  => type_counts[q] = ZeroBucket
        /\ main_pc = "done" =>
              LET seen == FirstSeen(results)
              IN  /\ Len(report) = RowsPerBucket * (Len(seen) + 1)
                  /\ \A k \in DOMAIN seen :
                        \A j \in 1..RowsPerBucket :
                           LET row == report[(k - 1) * RowsPerBucket + j]
                           IN  /\ row[1] = "Per Question Type Analysis"
                               /\ row[2] = seen[k]
                  /\ \A j \in 1..RowsPerBucket :
                        report[Len(seen) * RowsPerBucket + j][1] = "Overall Analysis"

\* a dataset whose second case opens a second category has been reported:
\* "unknown" first, "actor_to_movie" second, the overall rows last
C22_Witness ==
    /\ script = "main"
    /\ main_pc = "done"
    /\ Len(results) = 2
    /\ Category(results[1].dp) = "unknown"
    /\ Category(results[2].dp) = "actor_to_movie"
    /\ report[1][2] = "unknown"
    /\ report[29][2] = "actor_to_movie"
    /\ report[57][1] = "Overall Analysis"
    /\ Len(report) = 84

\* ------------------------------------------------------------ timeout claim
\* C21: a timeout is treated as any other execution failure: a pass in which
\* the failing executions raise TimeoutError and a pass over the same cases
\* in which they raise another exception go through the same states of the
\* counts, so both return, with the same counts in the overall bucket and in
\* every category bucket, or both end in the same exception.
C21_TimeoutIsAnyOtherFailure ==
    script = "twins" =>
        /\ returned # << >> => pc # "raised"
        /\ call = "done" => returned["TimeoutError"] = returned["Exception"]

\* both passes have returned for a dataset whose second case fails, with the
\* failure counted as a false negative in each
C21_Witness ==
    /\ script = "twins"
    /\ call = "done"
    /\ Len(results) = 2
    /\ results[2].smp.type = "TimeoutError"
    /\ returned["TimeoutError"].overall_query = [TP |-> 1, FN |-> 1, FP |-> 0, TN |-> 0]
    /\ returned["Exception"].overall_query.FN = 1

\* --------------------------------------------------------- time_limit claim
\* C24: the wrapper always cancels its alarm: however the wrapped query
\* ends, no alarm is pending once the call is over, and while a call runs
\* the only alarm that can be pending is its own; so every TimeoutError is
\* raised inside the call that armed the alarm, in func or in the finally
\* clause, never in the caller between two calls and never in a later call.
C24_AlarmNeverOutlivesItsCall ==
    /\ wrapper_pc = "caller" => alarm = 0
    /\ alarm \in {0, calls}
    /\ \A t \in timeouts : /\ t.during = t.armed_by
                           /\ t.at \in {"func", "finally"}

\* a call that timed out in the query has been followed by a call that
\* returned, and by a call whose alarm went off in the finally clause
C24_Witness ==
    /\ script = "time_limit"
    /\ wrapper_pc = "caller"
    /\ outcomes = <<"TimeoutError", "rows", "TimeoutError">>
    /\ timeouts = {[armed_by |-> 1, at |-> "func", during |-> 1],
                   [armed_by |-> 3, at |-> "finally", during |-> 3]}
    /\ alarm = 0

\* -------------------------------------------------------- chat front end claim
\* what a conversation holds for prompt n, in the order it was appended
ForPrompt(messages, n) == SelectSeq(messages, LAMBDA m : m.content.prompt = n)
StartsWith(whole, part) ==
    /\ Len(part) <= Len(whole)
    /\ \A i \in 1..Len(part) : part[i] = whole[i]
InPromptOrder(messages) ==
    \A i, j \in 1..Len(messages) :
        i < j => messages[i].content.prompt <= messages[j].content.prompt
FinetunedExchange(n) ==
    << Message("user", PromptText(n)),
       Message("assistant", GeneratingText(n)),
       Message("assistant", GeneratedText(n)),
       Message("assistant", FinalText("finetuned", n)) >>
BaseExchange(n) ==
    << Message("user", PromptText(n)),
       Message("assistant", FinalText("base", n)) >>

\* C25: under every interleaving of the two workers, what finetuned_messages
\* holds for one prompt is the beginning of: the user message, "Generating",
\* "Generated", the fine-tuned final response, each at most once and in that
\* order, and all four once the fine-tuned worker has returned; what
\* base_messages holds is the beginning of: the user message, the base final
\* response, both once the base worker has returned; no message of one
\* worker is in the other's list.
C25_WorkersWriteDisjointListsInOrder ==
    script = "streamlit" =>
        /\ InPromptOrder(session_state.finetuned_messages)
        /\ InPromptOrder(session_state.base_messages)
        /\ \A n \in 1..MaxPrompts :
              /\ StartsWith(FinetunedExchange(n),
                            ForPrompt(session_state.finetuned_messages, n))
              /\ StartsWith(BaseExchange(n),
                            ForPrompt(session_state.base_messages, n))
        /\ finetuned_pc = "returned" =>
              ForPrompt(session_state.finetuned_messages, prompt)
                  = FinetunedExchange(prompt)
        /\ base_pc = "returned" =>
              ForPrompt(session_state.base_messages, prompt) = BaseExchange(prompt)

\* the base worker has finished the second prompt while the fine-tuned
\* worker is between its "Generating" and its "Generated" message, after a
\* first prompt that both workers answered
C25_Witness ==
    /\ script = "streamlit"
    /\ prompt = 2
    /\ base_pc = "returned"
    /\ finetuned_pc = "on_query_generated"
    /\ session_state.base_messages = BaseExchange(1) \o BaseExchange(2)
    /\ session_state.finetuned_messages
          = FinetunedExchange(1) \o SubSeq(FinetunedExchange(2), 1, 2)

====
